---- MODULE Spec2Model ----
(***************************************************************************)
(* HTTPProxy (pkg/object/httpproxy/httpproxy.go): the request pipeline     *)
(* preHandle -> handle -> postHandle with its cancellation checks, the     *)
(* fallback decision tryFallback, construction (New) and teardown (Close). *)
(*                                                                         *)
(* Every request context carries a log of the calls made on it (trace),    *)
(* each entry naming the call, its caller, and its arguments.  The stages  *)
(* (validator, rate limiter, ...) live in other packages; their answers    *)
(* are inputs drawn from small sets.                                       *)
(* A stage call returns; a stage that panics is not modelled.              *)
(***************************************************************************)
EXTENDS Integers, Sequences, FiniteSets, TLC

\* ------------------------------------------------------------------ bounds
MaxRequests == 2

MaxFailures == 2

\* --------------------------------------------------------------- constants
StatusBadRequest == 400
StatusTooManyRequests == 429
StatusServiceUnavailable == 503

Nil == "nil"

fallbackPluginRateLimiter == "rate-limiter"
fallbackPluginCircuitBreaker == "circuit-breaker"
fallbackPluginBackend == "backend"
fallbackPluginCandidateBackend == "candidate-backend"

\* the answers the stages can give
ValidateErrs == {"invalid"}
LimitErrs == {"limited", "busy"}
ProtectErrs == {"open", "failure"}
HandlerErrs == {"unreachable"}
BackendCodes == {200, 500}
FallbackCodes == {299}
ClientGone == "client gone"

Proxy == "HTTPProxy"

VARIABLES hp, rate1, pc, req, served, closed, closeLog

vars == <<hp, rate1, pc, req, served, closed, closeLog>>

\* The requests Handle is working on at one time sit in slots: one for
\* requests served one after the other, two for concurrent ones.
Slots == DOMAIN pc

OneSlot == {1}

TwoSlots == {1, 2}

\* ------------------------------------------------------------ construction
\* Spec: which optional sub-specifications are present (non-nil).
SpecType ==
    [fallback : BOOLEAN, validator : BOOLEAN, rateLimiter : BOOLEAN,
     circuitBreaker : BOOLEAN, adaptor : BOOLEAN, mirrorBackend : BOOLEAN,
     candidateBackend : BOOLEAN, compression : BOOLEAN]

\* New with Compress registered on the backend only
NewBackendObserverOnly(spec) ==
    [fallback |-> spec.fallback,
     validator |-> spec.validator,
     rateLimiter |-> spec.rateLimiter,
     circuitBreaker |-> spec.circuitBreaker,
     adaptor |-> spec.adaptor,
     mirrorBackend |-> spec.mirrorBackend,
     candidateBackend |-> spec.candidateBackend,
     backend |-> TRUE,
     compression |-> spec.compression,
     candidateOnResponseGot |-> FALSE,
     backendOnResponseGot |-> spec.compression]

\* New: one stage per present sub-specification, the backend always; with
\* compression, Compress is registered on the candidate backend (if any)
\* and on the backend.
New(spec) ==
    [fallback |-> spec.fallback,
     validator |-> spec.validator,
     rateLimiter |-> spec.rateLimiter,
     circuitBreaker |-> spec.circuitBreaker,
     adaptor |-> spec.adaptor,
     mirrorBackend |-> spec.mirrorBackend,
     candidateBackend |-> spec.candidateBackend,
     backend |-> TRUE,
     compression |-> spec.compression,
     candidateOnResponseGot |-> spec.compression /\ spec.candidateBackend,
     backendOnResponseGot |-> spec.compression]

\* ---------------------------------------------------------- request context
\* One logged call: op called by who, with a fallback tag, an error and a
\* status code where the call has them.
Ev(op, who, tag, err, code) ==
    [op |-> op, who |-> who, tag |-> tag, err |-> err, code |-> code]

\* A fresh context as the transport layer hands it to Handle.
NewContext(gone) ==
    [cancelled |-> gone,
     cancelErr |-> IF gone THEN ClientGone ELSE Nil,
     status |-> 0,
     finishFuncs |-> 0,
     trace |-> <<>>]

NoContext == NewContext(FALSE)

Log(c, e) == [c EXCEPT !.trace = Append(@, e)]

\* ctx.Response().SetStatusCode(code), called by who
SetStatusCode(c, who, code) ==
    Log([c EXCEPT !.status = code], Ev("SetStatusCode", who, "", Nil, code))

\* ctx.Cancel(err), called by who: the flag is set once, with its reason
Cancel(c, who, err) ==
    Log([c EXCEPT !.cancelled = TRUE,
                  !.cancelErr = IF c.cancelled THEN @ ELSE err],
        Ev("Cancel", who, "", err, 0))

\* ctx.Cancelled()
Cancelled(c) == c.cancelled

\* ctx.OnFinish(fn): one more completion hook
OnFinish(c, who) ==
    Log([c EXCEPT !.finishFuncs = @ + 1], Ev("OnFinish", who, "", Nil, 0))

\* fmt.Errorf("validate failed: %v", err)
ValidateFailed(err) == "validate failed: " \o err

BoolStr(b) == IF b THEN "true" ELSE "false"

\* ----------------------------------------------------------------- stages
\* The answers one request gets from the stages it meets.
Outcomes ==
    [code : BackendCodes, cancel : {Nil}] \cup [code : {0}, cancel : HandlerErrs]

Protections ==
    [run : {FALSE}, err : ProtectErrs, out : {[code |-> 0, cancel |-> Nil]}]
        \cup [run : {TRUE}, err : {Nil} \cup ProtectErrs, out : Outcomes]

Responses ==
    [do : {"none", "cancel"}, code : {0}] \cup [do : {"respond"}, code : FallbackCodes]

PreAnswers ==
    [validate : {Nil} \cup ValidateErrs, limit : {Nil} \cup LimitErrs,
     fallback : Responses]

MainAnswers ==
    [filter : BOOLEAN, protect : Protections, out : Outcomes, fallback : Responses]

\* backend.Handle / candidateBackend.Handle, called by who: the stage either
\* gets a response (writes its status code and runs the observers registered
\* with OnResponseGot) or fails and cancels the request.
OnResponseGot(stage) ==
    IF stage = "candidateBackend" THEN hp.candidateOnResponseGot
    ELSE hp.backendOnResponseGot

StageHandle(c, who, stage, out) ==
    LET c1 == Log(c, Ev(stage \o ".Handle", who, "", Nil, 0))
    IN  IF out.cancel # Nil
        THEN Cancel(c1, stage, out.cancel)
        ELSE LET c2 == SetStatusCode(c1, stage, out.code)
             IN  IF OnResponseGot(stage)
                 THEN Log(c2, Ev("Compress", stage, "", Nil, 0))
                 ELSE c2

\* circuitBreaker.Protect(ctx, handler): rejects without running the
\* handler, or runs it and returns nil or the failure it counted.
Protect(c, stage, p) ==
    LET c1 == Log(c, Ev("Protect", Proxy, stage, p.err, 0))
    IN  IF p.run THEN StageHandle(c1, "circuitBreaker", stage, p.out) ELSE c1

\* hp.fallback.tryFallback(ctx, pt, err): the responder answers in place of
\* the stage, gives the error back as a cancellation, or leaves the response.
fallbackTryFallback(c, pt, err, r) ==
    LET c1 == Log(c, Ev("fallback.tryFallback", Proxy, pt, err, 0))
    IN  CASE r.do = "respond" -> SetStatusCode(c1, "fallback", r.code)
          [] r.do = "cancel" /\ err # Nil -> Cancel(c1, "fallback", err)
          [] OTHER -> c1

\* tryFallback cancelling on an error even when a fallback is configured
tryFallbackCancelToo(c, pt, err, r) ==
    LET c1 == Log(c, Ev("tryFallback", Proxy, pt, err, 0))
        c2 == IF hp.fallback THEN fallbackTryFallback(c1, pt, err, r) ELSE c1
    IN  IF err # Nil THEN Cancel(c2, Proxy, err) ELSE c2

\* --------------------------------------------------------------- HTTPProxy
tryFallback(c, pt, err, r) ==
    LET c1 == Log(c, Ev("tryFallback", Proxy, pt, err, 0))
    IN  IF hp.fallback
        THEN fallbackTryFallback(c1, pt, err, r)
        ELSE IF err # Nil THEN Cancel(c1, Proxy, err) ELSE c1

\* preValidate with the fallback manager consulted instead of the cancellation
preValidateFallback(c, err) ==
    tryFallback(SetStatusCode(c, Proxy, StatusBadRequest),
                fallbackPluginRateLimiter, ValidateFailed(err),
                [do |-> "none", code |-> 0])

\* preHandle, after the validator answered err
preValidate(c, err) ==
    Cancel(SetStatusCode(c, Proxy, StatusBadRequest), Proxy, ValidateFailed(err))

\* preLimit with the limiter's error dropped
preLimitNoErr(c, err, r) ==
    tryFallback(SetStatusCode(c, Proxy, StatusTooManyRequests),
                fallbackPluginRateLimiter, Nil, r)

\* preHandle, after the rate limiter answered err
preLimit(c, err, r) ==
    tryFallback(SetStatusCode(c, Proxy, StatusTooManyRequests),
                fallbackPluginRateLimiter, err, r)

\* preAdapt with the mirror served before the request is adapted
preAdaptMirrorFirst(c) ==
    LET cm == IF hp.mirrorBackend
              THEN Log(c, Ev("mirrorBackend.Handle", Proxy, "", Nil, 0)) ELSE c
    IN  IF hp.adaptor
        THEN Log(cm, Ev("AdaptRequest", Proxy, "", Nil, 0)) ELSE cm

\* preAdapt without the nil checks
preAdaptUnchecked(c) ==
    Log(Log(c, Ev("AdaptRequest", Proxy, "", Nil, 0)),
        Ev("mirrorBackend.Handle", Proxy, "", Nil, 0))

\* preHandle, after validator and rate limiter let the request pass
preAdapt(c) ==
    LET ca == IF hp.adaptor
              THEN Log(c, Ev("AdaptRequest", Proxy, "", Nil, 0)) ELSE c
    IN  IF hp.mirrorBackend
        THEN Log(ca, Ev("mirrorBackend.Handle", Proxy, "", Nil, 0)) ELSE ca

preHandle(c, a) ==
    LET c0 == Log(c, Ev("preHandle", Proxy, "", Nil, 0))
        cv == IF hp.validator
              THEN Log(c0, Ev("Validate", Proxy, "", a.validate, 0)) ELSE c0
        cl == IF hp.rateLimiter
              THEN Log(cv, Ev("Limit", Proxy, "", a.limit, 0)) ELSE cv
    IN  IF hp.validator /\ a.validate # Nil THEN preValidate(cv, a.validate)
        ELSE IF hp.rateLimiter /\ a.limit # Nil
             THEN preLimit(cl, a.limit, a.fallback)
             ELSE preAdapt(cl)

\* selectBackend with the filter's answer ignored
selectBackendNoFilter(filter) ==
    IF hp.candidateBackend
    THEN <<fallbackPluginCandidateBackend, "candidateBackend">>
    ELSE <<fallbackPluginBackend, "backend">>

\* handle: the backend the request goes to, as <<pt, handler>>
selectBackend(filter) ==
    IF hp.candidateBackend /\ filter
    THEN <<fallbackPluginCandidateBackend, "candidateBackend">>
    ELSE <<fallbackPluginBackend, "backend">>

\* handleProtected with the breaker's error ignored
handleProtectedIgnoreErr(c, pt, handler, a) ==
    tryFallback(Protect(c, handler, a.protect), pt, Nil, a.fallback)

\* handleProtected with the fallback manager consulted on errors only
handleProtectedOnlyOnErr(c, pt, handler, a) ==
    LET cp == Protect(c, handler, a.protect)
    IN  IF a.protect.err # Nil
        THEN tryFallback(SetStatusCode(cp, Proxy, StatusServiceUnavailable),
                         fallbackPluginCircuitBreaker, a.protect.err, a.fallback)
        ELSE cp

\* handle, with a circuit breaker
handleProtected(c, pt, handler, a) ==
    LET cp == Protect(c, handler, a.protect)
    IN  IF a.protect.err # Nil
        THEN tryFallback(SetStatusCode(cp, Proxy, StatusServiceUnavailable),
                         fallbackPluginCircuitBreaker, a.protect.err, a.fallback)
        ELSE tryFallback(cp, pt, Nil, a.fallback)

\* handleDirect with the fallback manager consulted before the handler runs
handleDirectFallbackFirst(c, pt, handler, a) ==
    StageHandle(tryFallback(c, pt, Nil, a.fallback), Proxy, handler, a.out)

\* handleDirect with the handler called a second time
handleDirectTwice(c, pt, handler, a) ==
    tryFallback(StageHandle(StageHandle(c, Proxy, handler, a.out),
                            Proxy, handler, a.out),
                pt, Nil, a.fallback)

\* handle, without a circuit breaker
handleDirect(c, pt, handler, a) ==
    tryFallback(StageHandle(c, Proxy, handler, a.out), pt, Nil, a.fallback)

handle(c, a) ==
    LET c0 == Log(c, Ev("handle", Proxy, "", Nil, 0))
        cf == IF hp.candidateBackend
              THEN Log(c0, Ev("Filter", Proxy, BoolStr(a.filter), Nil, 0)) ELSE c0
        sel == selectBackend(a.filter)
    IN  IF hp.circuitBreaker
        THEN handleProtected(cf, sel[1], sel[2], a)
        ELSE handleDirect(cf, sel[1], sel[2], a)

postHandle(c) ==
    LET c0 == Log(c, Ev("postHandle", Proxy, "", Nil, 0))
    IN  IF hp.adaptor THEN Log(c0, Ev("AdaptResponse", Proxy, "", Nil, 0)) ELSE c0

\* HandleReturn as it would be with the hook registered at the end of Handle
\* instead of in a deferred call: the early returns miss it
HandleReturnAtEnd(c) == IF Cancelled(c) THEN c ELSE OnFinish(c, Proxy)

\* Handle's deferred call, run when Handle returns
HandleReturn(c) == OnFinish(c, Proxy)

\* AfterPre without the check
AfterPreAlways(c) == "handle"

\* Handle's check after preHandle: where the request goes next
AfterPre(c) == IF Cancelled(c) THEN "returned" ELSE "handle"

\* AfterMain without the check
AfterMainAlways(c) == "postHandle"

\* Handle's check after handle
AfterMain(c) == IF Cancelled(c) THEN "returned" ELSE "postHandle"

\* ----------------------------------------------------------------- actions
\* The transport layer hands a new request context to Handle.
Serve(s) ==
    /\ pc[s] = "idle"
    /\ ~closed
    /\ served < MaxRequests
    /\ \E gone \in BOOLEAN : req' = [req EXCEPT ![s] = NewContext(gone)]
    /\ pc' = [pc EXCEPT ![s] = "preHandle"]
    /\ served' = served + 1
    /\ UNCHANGED <<hp, rate1, closed, closeLog>>

\* Handle: hp.preHandle(ctx); if ctx.Cancelled() { return }
HandlePre(s) ==
    /\ pc[s] = "preHandle"
    /\ \E a \in PreAnswers :
         LET c == preHandle(req[s], a)
             to == AfterPre(c)
         IN  /\ req' = [req EXCEPT ![s] = IF to = "returned" THEN HandleReturn(c) ELSE c]
             /\ pc' = [pc EXCEPT ![s] = to]
    /\ UNCHANGED <<hp, rate1, served, closed, closeLog>>

\* HandleMain as it would be with the request kept in a field of HTTPProxy
\* that the latest request in the handling phase overwrites
HandleMainShared(s) ==
    /\ pc[s] = "handle"
    /\ \E a \in MainAnswers :
         LET t == CHOOSE t \in Slots :
                      /\ pc[t] = "handle"
                      /\ \A u \in Slots : pc[u] = "handle" => u <= t
             c == handle(req[t], a)
             to == AfterMain(c)
         IN  /\ req' = [req EXCEPT ![s] = IF to = "returned" THEN HandleReturn(c) ELSE c]
             /\ pc' = [pc EXCEPT ![s] = to]
    /\ UNCHANGED <<hp, rate1, served, closed, closeLog>>

\* Handle: hp.handle(ctx); if ctx.Cancelled() { return }
HandleMain(s) ==
    /\ pc[s] = "handle"
    /\ \E a \in MainAnswers :
         LET c == handle(req[s], a)
             to == AfterMain(c)
         IN  /\ req' = [req EXCEPT ![s] = IF to = "returned" THEN HandleReturn(c) ELSE c]
             /\ pc' = [pc EXCEPT ![s] = to]
    /\ UNCHANGED <<hp, rate1, served, closed, closeLog>>

\* Handle: hp.postHandle(ctx), and Handle returns
HandlePost(s) ==
    /\ pc[s] = "postHandle"
    /\ req' = [req EXCEPT ![s] = HandleReturn(postHandle(req[s]))]
    /\ pc' = [pc EXCEPT ![s] = "returned"]
    /\ UNCHANGED <<hp, rate1, served, closed, closeLog>>

\* The transport layer finishes the request: the completion hooks run, each
\* one hp.rate1.Update(1).
Finish(s) ==
    /\ pc[s] = "returned"
    /\ rate1' = rate1 + req[s].finishFuncs
    /\ req' = [req EXCEPT ![s] = NoContext]
    /\ pc' = [pc EXCEPT ![s] = "idle"]
    /\ UNCHANGED <<hp, served, closed, closeLog>>

\* Close: the stages that are there, in the order of the code
CloseOrder ==
    <<"fallback", "validator", "rateLimiter", "circuitBreaker", "adaptor",
      "mirrorBackend", "candidateBackend", "backend", "compression">>

\* the stages Close has something to release for
Configured == {CloseOrder[i] : i \in {k \in DOMAIN CloseOrder : hp[CloseOrder[k]]}}

\* the releases that can fail within one Close
Failures == {f \in SUBSET Configured : Cardinality(f) <= MaxFailures}

\* st.Close(): the release is logged with what became of it; the caller
\* gets nothing back
release(log, st, fails) == Append(log, [stage |-> st, failed |-> st \in fails])

\* closeStage stopping the teardown at the first release that failed
closeStageStopOnError(log, st, fails) ==
    IF \E i \in DOMAIN log : log[i].failed THEN log
    ELSE IF hp[st] THEN release(log, st, fails) ELSE log

\* closeStage without the nil check
closeStageUnchecked(log, st, fails) == release(log, st, fails)

\* if hp.st != nil { hp.st.Close() }
closeStage(log, st, fails) == IF hp[st] THEN release(log, st, fails) ELSE log

\* the statements of Close from the i-th on; the backend's has no nil check
RECURSIVE closeFrom(_, _, _)
closeFrom(i, log, fails) ==
    IF i > Len(CloseOrder) THEN log
    ELSE closeFrom(i + 1,
                   IF CloseOrder[i] = "backend"
                   THEN release(log, "backend", fails)
                   ELSE closeStage(log, CloseOrder[i], fails),
                   fails)

Close ==
    /\ ~closed
    /\ \A s \in Slots : pc[s] = "idle"
    /\ closed' = TRUE
    /\ \E fails \in Failures : closeLog' = closeFrom(1, <<>>, fails)
    /\ UNCHANGED <<hp, rate1, pc, req, served>>

Init ==
    /\ hp \in {New(spec) : spec \in SpecType}
    /\ rate1 = 0
    /\ pc = [s \in OneSlot |-> "idle"]
    /\ req = [s \in OneSlot |-> NoContext]
    /\ served = 0
    /\ closed = FALSE
    /\ closeLog = <<>>

\* The shape of the state: the orchestrator's stages (hp), its rate counter,
\* and per slot the request context Handle is working on and where Handle is.
TypeOK ==
    /\ hp \in {New(spec) : spec \in SpecType}
    /\ rate1 \in 0..MaxRequests
    /\ served \in 0..MaxRequests
    /\ pc \in [Slots -> {"idle", "preHandle", "handle", "postHandle", "returned"}]
    /\ \A s \in Slots :
           /\ req[s].cancelled \in BOOLEAN
           /\ req[s].finishFuncs \in 0..1
           /\ req[s].cancelled <=> req[s].cancelErr # Nil
    /\ closed \in BOOLEAN
    /\ closed => closeLog # <<>>

Next ==
    \/ \E s \in Slots : Serve(s)
    \/ \E s \in Slots : HandlePre(s)
    \/ \E s \in Slots : HandleMain(s)
    \/ \E s \in Slots : HandlePost(s)
    \/ \E s \in Slots : Finish(s)
    \/ Close

Spec == Init /\ [][Next]_vars

\* Two requests at a time.  The configurations: the stages that consult
\* the fallback and choose the backend; the stages that reject and observe;
\* the backend alone.
ConcSpecs ==
    {spec \in SpecType :
        \/ \A f \in DOMAIN spec :
               spec[f] <=> f \in {"fallback", "rateLimiter", "adaptor", "candidateBackend"}
        \/ \A f \in DOMAIN spec :
               spec[f] <=> f \in {"validator", "circuitBreaker", "mirrorBackend", "compression"}
        \/ \A f \in DOMAIN spec : ~spec[f]}

InitConc ==
    /\ hp \in {New(spec) : spec \in ConcSpecs}
    /\ rate1 = 0
    /\ pc = [s \in TwoSlots |-> "idle"]
    /\ req = [s \in TwoSlots |-> NoContext]
    /\ served = 0
    /\ closed = FALSE
    /\ closeLog = <<>>

SpecConc == InitConc /\ [][Next]_vars

\* ------------------------------------------------------- reading the trace
Trace(s) == req[s].trace

At(s) == DOMAIN req[s].trace

\* the calls op in the trace of slot s
Calls(s, op) == {i \in At(s) : Trace(s)[i].op = op}

\* the calls op that HTTPProxy itself made
Own(s, op) == {i \in Calls(s, op) : Trace(s)[i].who = Proxy}

HandlerOps == {"backend.Handle", "candidateBackend.Handle"}

BackendTags == {fallbackPluginBackend, fallbackPluginCandidateBackend}

\* the calls into a stage (the fallback responder included)
StageOps ==
    {"Validate", "Limit", "AdaptRequest", "mirrorBackend.Handle", "Filter",
     "Protect", "AdaptResponse", "fallback.tryFallback"} \cup HandlerOps

\* the calls of either backend handler
Handled(s) == {i \in At(s) : Trace(s)[i].op \in HandlerOps}

\* the fallback manager's calls carrying tag pt
Tagged(s, pt) == {i \in Own(s, "tryFallback") : Trace(s)[i].tag = pt}

\* the rejections: calls op that returned an error
Rejected(s, op) == {i \in Own(s, op) : Trace(s)[i].err # Nil}

\* Handle has returned for the request in slot s
Returned(s) == pc[s] = "returned"

\* the context was cancelled before Handle was entered
EnteredCancelled(s) == req[s].cancelErr = ClientGone

\* the request reached the handling phase
ReachedHandle(s) == Calls(s, "handle") # {}

\* C1: a request whose Validate returns an error gets status 400 and is
\* cancelled by HTTPProxy with the "validate failed" error made from the
\* validator's error; the fallback manager is not invoked, whether a fallback
\* is configured or not, and no other stage is called: the trace holds
\* nothing but Validate, the status, the cancellation and the return.
C1_ValidationFailure ==
    \A s \in Slots : \A i \in Rejected(s, "Validate") :
        /\ req[s].status = StatusBadRequest
        /\ req[s].cancelled
        /\ Returned(s)
        /\ Len(Trace(s)) = i + 3
        /\ Trace(s)[i + 1] = Ev("SetStatusCode", Proxy, "", Nil, StatusBadRequest)
        /\ Trace(s)[i + 2] = Ev("Cancel", Proxy, "", ValidateFailed(Trace(s)[i].err), 0)
        /\ Trace(s)[i + 3].op = "OnFinish"
        /\ Calls(s, "tryFallback") = {}
        /\ \A j \in At(s) : Trace(s)[j].op \in StageOps => j = i

C1_Witness ==
    \E s \in Slots :
        /\ hp.fallback /\ hp.rateLimiter /\ hp.adaptor
        /\ Rejected(s, "Validate") # {}
        /\ Returned(s)

\* C2: a request whose Limit returns an error gets status 429 from
\* HTTPProxy, and over the whole Handle call exactly one call of the fallback
\* manager carries the tag rate-limiter; that call carries the limiter's
\* error and comes right after the status.
C2_RateLimited ==
    \A s \in Slots : \A i \in Rejected(s, "Limit") :
        /\ Len(Trace(s)) >= i + 2
        /\ Trace(s)[i + 1] = Ev("SetStatusCode", Proxy, "", Nil, StatusTooManyRequests)
        /\ Trace(s)[i + 2] =
               Ev("tryFallback", Proxy, fallbackPluginRateLimiter, Trace(s)[i].err, 0)
        /\ Tagged(s, fallbackPluginRateLimiter) = {i + 2}

C2_Witness ==
    \E s \in Slots :
        /\ Returned(s)
        /\ Rejected(s, "Limit") # {}
        /\ hp.fallback
        /\ Calls(s, "postHandle") # {}

\* C3: a request rejected by the rate limiter has status 429 set before the
\* fallback manager is consulted, and no backend handler (default or
\* candidate) is invoked for it afterwards, with or without a fallback.
C3_NoBackendAfterRateLimit ==
    \A s \in Slots : \A i \in Rejected(s, "Limit") :
        /\ \E j \in Own(s, "SetStatusCode") :
               /\ Trace(s)[j].code = StatusTooManyRequests
               /\ \A k \in Calls(s, "tryFallback") : j < k
        /\ Handled(s) = {}
        /\ Own(s, "Protect") = {}

PhaseOps == {"preHandle", "handle", "postHandle"}

PhaseOf(s, i) ==
    LET starts == {k \in 1..i : Trace(s)[k].op \in PhaseOps}
    IN  IF starts = {} THEN 0 ELSE CHOOSE k \in starts : \A m \in starts : m <= k

InHandle(s) ==
    {k \in Own(s, "tryFallback") : \E h \in Calls(s, "handle") : h < k}

\* no cancellation had happened when call i was made
CleanAt(s, i) ==
    /\ ~EnteredCancelled(s)
    /\ \A k \in Calls(s, "Cancel") : k > i

\* C5: the handling phase and the post-handle phase are entered only while
\* the request is not cancelled, so every Filter, Protect, handler call and
\* AdaptResponse belongs to a phase entered uncancelled; and a request that
\* comes out of the handling phase uncancelled, with an adaptor configured,
\* gets AdaptResponse exactly once.
C5_CancelledBetweenPhases ==
    \A s \in Slots :
        /\ \A i \in Calls(s, "handle") \cup Calls(s, "postHandle") : CleanAt(s, i)
        /\ \A j \in At(s) :
               Trace(s)[j].op \in {"Filter", "Protect", "AdaptResponse"} \cup HandlerOps =>
                   /\ Trace(s)[PhaseOf(s, j)].op \in {"handle", "postHandle"}
                   /\ CleanAt(s, PhaseOf(s, j))
        /\ (Returned(s) /\ req[s].cancelled) => Own(s, "AdaptResponse") = {}
        /\ (Returned(s) /\ ~req[s].cancelled /\ hp.adaptor) =>
               Cardinality(Own(s, "AdaptResponse")) = 1

C5_Witness ==
    \E s \in Slots :
        /\ Returned(s)
        /\ hp.adaptor
        /\ ReachedHandle(s)
        /\ req[s].cancelled
        /\ Own(s, "AdaptRequest") # {}

\* C6: when Protect returns an error, HTTPProxy sets status 503 and then
\* calls the fallback manager with the tag circuit-breaker and that error;
\* no call of the fallback manager carries a backend's tag.
C6_BreakerRejects ==
    \A s \in Slots : \A i \in Rejected(s, "Protect") :
        \E j \in Own(s, "SetStatusCode") :
            /\ j > i
            /\ Trace(s)[j].code = StatusServiceUnavailable
            /\ Len(Trace(s)) > j
            /\ Trace(s)[j + 1] =
                   Ev("tryFallback", Proxy, fallbackPluginCircuitBreaker, Trace(s)[i].err, 0)
            /\ InHandle(s) = {j + 1}
            /\ \A pt \in BackendTags : Tagged(s, pt) = {}

C6_Witness ==
    \E s \in Slots :
        /\ Rejected(s, "Protect") # {}
        /\ hp.fallback
        /\ Handled(s) # {}

\* the fallback tag that goes with a handler
TagOf(op) ==
    IF op = "candidateBackend.Handle"
    THEN fallbackPluginCandidateBackend ELSE fallbackPluginBackend

\* C7: without a circuit breaker, a request that reaches the handling phase
\* has one handler call, made by HTTPProxy itself, followed by one call of
\* the fallback manager in that phase, with a nil error and the tag of the
\* handler that was called.
C7_DirectHandler ==
    \A s \in Slots : (~hp.circuitBreaker /\ ReachedHandle(s)) =>
        \E i \in Handled(s) : \E k \in InHandle(s) :
            /\ Handled(s) = {i}
            /\ Trace(s)[i].who = Proxy
            /\ InHandle(s) = {k}
            /\ i < k
            /\ Trace(s)[k].err = Nil
            /\ Trace(s)[k].tag = TagOf(Trace(s)[i].op)

C7_Witness ==
    \E s \in Slots :
        /\ ~hp.circuitBreaker
        /\ hp.fallback
        /\ Calls(s, "candidateBackend.Handle") # {}
        /\ Rejected(s, "Limit") # {}

\* the filter accepted the request
Accepted(s) == \E i \in Own(s, "Filter") : Trace(s)[i].tag = "true"

\* the tag of the backend the filter's answer selects
SelectedTag(s) ==
    IF hp.candidateBackend /\ Accepted(s)
    THEN fallbackPluginCandidateBackend ELSE fallbackPluginBackend

\* C8: a request that reaches the handling phase has exactly one call of the
\* fallback manager in that phase: with the tag circuit-breaker and the
\* breaker's error if Protect returned one, and otherwise with the selected
\* backend's tag and a nil error, whatever the handler did.
C8_OneConsultation ==
    \A s \in Slots : ReachedHandle(s) =>
        \E k \in InHandle(s) :
            /\ InHandle(s) = {k}
            /\ IF Rejected(s, "Protect") # {}
               THEN /\ Trace(s)[k].tag = fallbackPluginCircuitBreaker
                    /\ \A i \in Rejected(s, "Protect") : Trace(s)[k].err = Trace(s)[i].err
               ELSE /\ Trace(s)[k].tag = SelectedTag(s)
                    /\ Trace(s)[k].err = Nil

C8_Witness ==
    \E s \in Slots :
        /\ Own(s, "Protect") # {}
        /\ Rejected(s, "Protect") = {}
        /\ \E i \in Calls(s, "SetStatusCode") :
               Trace(s)[i].who = "candidateBackend" /\ Trace(s)[i].code = 500
        /\ InHandle(s) # {}

\* the handlers HTTPProxy used: handed to Protect or called directly
Used(s) ==
    {Trace(s)[i].tag : i \in Own(s, "Protect")}
        \cup {"backend" : i \in Own(s, "backend.Handle")}
        \cup {"candidateBackend" : i \in Own(s, "candidateBackend.Handle")}

\* C9: in the handling phase the candidate backend's handler is the one
\* used, and the backend tag is candidate-backend, exactly when a candidate
\* backend is configured and its Filter returned true; otherwise the default
\* backend's handler and the tag backend.  The other handler is not called.
C9_BackendSelection ==
    \A s \in Slots : ReachedHandle(s) =>
        LET cand == hp.candidateBackend /\ Accepted(s)
            stage == IF cand THEN "candidateBackend" ELSE "backend"
            pt == IF cand THEN fallbackPluginCandidateBackend ELSE fallbackPluginBackend
        IN  /\ Used(s) = {stage}
            /\ \A i \in Handled(s) : Trace(s)[i].op = stage \o ".Handle"
            /\ \A k \in InHandle(s) : Trace(s)[k].tag \in BackendTags => Trace(s)[k].tag = pt
            /\ ~hp.candidateBackend => Own(s, "Filter") = {}

C9_Witness ==
    \E s \in Slots :
        /\ hp.candidateBackend
        /\ Own(s, "Filter") # {}
        /\ ~Accepted(s)
        /\ Calls(s, "backend.Handle") # {}
        /\ Tagged(s, fallbackPluginBackend) # {}

\* C10: every call tryFallback(ctx, pt, err).  Without a fallback: a non-nil
\* err is followed at once by HTTPProxy's Cancel with that same err, and a
\* nil err by nothing on the context (the next call, if any, is the next
\* phase or the return).  With a fallback: the call goes to the fallback
\* responder with the same pt and err, and HTTPProxy makes no Cancel after.
C10_TryFallback ==
    \A s \in Slots :
        /\ ~hp.fallback => Calls(s, "fallback.tryFallback") = {}
        /\ \A i \in Own(s, "tryFallback") :
               LET e == Trace(s)[i]
               IN  IF hp.fallback
                   THEN /\ Len(Trace(s)) > i
                        /\ Trace(s)[i + 1] = Ev("fallback.tryFallback", Proxy, e.tag, e.err, 0)
                        /\ \A j \in Own(s, "Cancel") : j < i
                   ELSE IF e.err # Nil
                        THEN /\ Len(Trace(s)) > i
                             /\ Trace(s)[i + 1] = Ev("Cancel", Proxy, "", e.err, 0)
                             /\ req[s].cancelled
                             /\ CleanAt(s, i) => req[s].cancelErr = e.err
                        ELSE (i + 1) \in At(s) =>
                                 Trace(s)[i + 1].op \in PhaseOps \cup {"OnFinish"}

C10_Witness ==
    \E s \in Slots :
        /\ hp.fallback
        /\ Returned(s)
        /\ ~req[s].cancelled
        /\ \E i \in Own(s, "tryFallback") : Trace(s)[i].err # Nil

\* the requests Handle was called with and that are not finished yet
InFlight == {s \in Slots : pc[s] # "idle"}

\* C11: every request passed to Handle gets its completion hook registered
\* exactly once, when Handle returns and on whatever path it returns, never
\* before; the rate counter is updated once, by 1, for every request that
\* finished: it counts the requests served less those still in flight.
C11_RateOncePerRequest ==
    /\ rate1 = served - Cardinality(InFlight)
    /\ \A s \in Slots :
           /\ Returned(s) =>
                  /\ req[s].finishFuncs = 1
                  /\ Own(s, "OnFinish") = {Len(Trace(s))}
                  /\ Calls(s, "OnFinish") = Own(s, "OnFinish")
           /\ ~Returned(s) =>
                  /\ req[s].finishFuncs = 0
                  /\ Calls(s, "OnFinish") = {}

C11_Witness ==
    \E s \in Slots :
        /\ rate1 = 1
        /\ Returned(s)
        /\ req[s].cancelled
        /\ Rejected(s, "Protect") # {}

\* the teardown order the claims speak of, and a stage's place in it
Teardown ==
    <<"fallback", "validator", "rateLimiter", "circuitBreaker", "adaptor",
      "mirrorBackend", "candidateBackend", "backend", "compression">>

Place(st) == CHOOSE i \in DOMAIN Teardown : Teardown[i] = st

\* the releases of stage st that Close made
Released(st) == {i \in DOMAIN closeLog : closeLog[i].stage = st}

\* C12: Close releases every configured stage exactly once and no stage that
\* is not configured; the backend always; the releases come in the order
\* fallback, validator, rate limiter, circuit breaker, adaptor, mirror
\* backend, candidate backend, backend, compression.
C12_CloseReleasesAll ==
    closed =>
        /\ \A k \in DOMAIN Teardown :
               Cardinality(Released(Teardown[k])) = IF hp[Teardown[k]] THEN 1 ELSE 0
        /\ Released("backend") # {}
        /\ \A i, j \in DOMAIN closeLog :
               i < j => Place(closeLog[i].stage) < Place(closeLog[j].stage)
        /\ \A i \in DOMAIN closeLog : \E k \in DOMAIN Teardown : closeLog[i].stage = Teardown[k]

C12_Witness ==
    /\ closed
    /\ hp.fallback /\ ~hp.validator /\ ~hp.adaptor /\ hp.candidateBackend /\ hp.compression
    /\ Len(closeLog) >= 4

\* C13: when the release of a stage fails, Close still releases every
\* configured stage that comes after it in the teardown order, the backend
\* and the compression included.
C13_CloseContinuesOnError ==
    closed =>
        \A i \in DOMAIN closeLog : closeLog[i].failed =>
            \A k \in DOMAIN Teardown :
                (hp[Teardown[k]] /\ k > Place(closeLog[i].stage)) =>
                    \E j \in Released(Teardown[k]) : j > i

C13_Witness ==
    /\ closed
    /\ hp.compression /\ hp.candidateBackend
    /\ \E i \in Released("fallback") : closeLog[i].failed
    /\ \E j \in Released("compression") : ~closeLog[j].failed

\* the configuration with the backend and nothing else
BackendOnly ==
    \A k \in DOMAIN Teardown : hp[Teardown[k]] <=> Teardown[k] = "backend"

\* what Handle does for one request when nothing but the backend is there:
\* the three phases, one call of the default backend's handler, the fallback
\* manager finding nothing to do, the completion hook; HTTPProxy itself sets
\* no status and cancels nothing, and nobody but the backend touches the
\* context
OneBackendCall(s) ==
    /\ Cardinality(Own(s, "backend.Handle")) = 1
    /\ Cardinality(Own(s, "tryFallback")) = 1
    /\ \A k \in Own(s, "tryFallback") :
           Trace(s)[k].tag = fallbackPluginBackend /\ Trace(s)[k].err = Nil
    /\ req[s].finishFuncs = 1
    /\ \A i \in At(s) :
           IF Trace(s)[i].who = Proxy
           THEN Trace(s)[i].op \in PhaseOps \cup {"backend.Handle", "tryFallback", "OnFinish"}
           ELSE /\ Trace(s)[i].who = "backend"
                /\ Trace(s)[i].op \in {"SetStatusCode", "Cancel"}
                /\ i - 1 \in Own(s, "backend.Handle")

\* C14, as stated: with no optional stage, every Handle call makes exactly
\* one call of the default backend's handler and nothing else.
C14_AbsenceOneBackendCall ==
    \A s \in Slots : (BackendOnly /\ Returned(s)) => OneBackendCall(s)

\* C14, amended: so it is for every request that is not cancelled when
\* Handle is entered; one that is gets no call at all, not the backend's
\* handler either, and only the completion hook.
C14_AbsenceIsNoOp ==
    \A s \in Slots : (BackendOnly /\ Returned(s)) =>
        IF EnteredCancelled(s)
        THEN /\ \A i \in At(s) : Trace(s)[i].op \in {"preHandle", "OnFinish"}
             /\ req[s].finishFuncs = 1
             /\ req[s].status = 0
        ELSE OneBackendCall(s)

C14_Witness ==
    \E s \in Slots :
        /\ BackendOnly
        /\ Returned(s)
        /\ ~EnteredCancelled(s)
        /\ req[s].status = 200
        /\ Calls(s, "postHandle") # {}

\* the handler calls that got a response: the stage wrote its status next
Responded(s) ==
    {i \in Handled(s) :
        /\ i + 1 \in Calls(s, "SetStatusCode")
        /\ Trace(s)[i + 1].who \in {"backend", "candidateBackend"}}

\* the stage whose handler call i is
StageOf(s, i) ==
    IF Trace(s)[i].op = "candidateBackend.Handle" THEN "candidateBackend" ELSE "backend"

\* C15: with compression configured, Compress is registered on the backend
\* and on the candidate backend if there is one, and every response either
\* handler gets is followed by Compress, run by the stage that got it; with
\* no compression nothing is registered and Compress never runs.  Compress
\* runs nowhere else.
C15_CompressionWiring ==
    /\ hp.backendOnResponseGot <=> hp.compression
    /\ hp.candidateOnResponseGot <=> (hp.compression /\ hp.candidateBackend)
    /\ \A s \in Slots :
           /\ \A i \in Responded(s) :
                  hp.compression =>
                      /\ i + 2 \in Calls(s, "Compress")
                      /\ Trace(s)[i + 2].who = StageOf(s, i)
           /\ \A k \in Calls(s, "Compress") :
                  /\ hp.compression
                  /\ k - 2 \in Responded(s)

C15_Witness ==
    \E s \in Slots :
        /\ hp.compression
        /\ hp.circuitBreaker
        /\ \E k \in Calls(s, "Compress") : Trace(s)[k].who = "candidateBackend"

\* the place of a stage call in the order of Handle; 0 for the entries of
\* the trace that are no stage call (the phases, what a stage or the
\* responder does to the context)
Order(e) ==
    CASE e.op = "Validate" -> 1
      [] e.op = "Limit" -> 2
      [] e.op = "tryFallback" /\ e.tag = fallbackPluginRateLimiter -> 3
      [] e.op = "fallback.tryFallback" /\ e.tag = fallbackPluginRateLimiter -> 4
      [] e.op = "AdaptRequest" -> 5
      [] e.op = "mirrorBackend.Handle" -> 6
      [] e.op = "Filter" -> 7
      [] e.op = "Protect" -> 8
      [] e.op \in HandlerOps -> 9
      [] e.op = "tryFallback" -> 10
      [] e.op = "fallback.tryFallback" -> 11
      [] e.op = "AdaptResponse" -> 12
      [] e.op = "OnFinish" -> 13
      [] OTHER -> 0

\* C16: the stage calls of one request come in the order Validate, Limit
\* (with its fallback consultation), AdaptRequest, mirror Handle, Filter,
\* Protect, backend handler, fallback consultation of the handling phase,
\* AdaptResponse: a later call in the trace is later in this order, so none
\* is out of order and none is made twice.  Handle returns (its deferred
\* call is the last entry) after every consultation and what came of it.
C16_StageOrder ==
    \A s \in Slots :
        /\ \A i, j \in At(s) :
               (i < j /\ Order(Trace(s)[i]) # 0 /\ Order(Trace(s)[j]) # 0) =>
                   Order(Trace(s)[i]) < Order(Trace(s)[j])
        /\ \A i \in Calls(s, "OnFinish") : i = Len(Trace(s))
        /\ \A i \in Calls(s, "fallback.tryFallback") :
               i - 1 \in Own(s, "tryFallback")

C16_Witness ==
    \E s \in Slots :
        /\ Returned(s)
        /\ Own(s, "Validate") # {} /\ Own(s, "Limit") # {}
        /\ Own(s, "AdaptRequest") # {} /\ Own(s, "mirrorBackend.Handle") # {}
        /\ Own(s, "Filter") # {} /\ Own(s, "Protect") # {}
        /\ Handled(s) # {}
        /\ Calls(s, "fallback.tryFallback") # {}
        /\ Own(s, "AdaptResponse") # {}

\* C18: when a backend handler is called, AdaptRequest has run if an adaptor
\* is configured and the mirror's Handle if a mirror is configured; and
\* AdaptResponse runs only after AdaptRequest.
C18_PreHandleBeforeBackend ==
    \A s \in Slots :
        /\ \A i \in Handled(s) :
               /\ hp.adaptor => \E k \in Own(s, "AdaptRequest") : k < i
               /\ hp.mirrorBackend => \E k \in Own(s, "mirrorBackend.Handle") : k < i
        /\ \A j \in Own(s, "AdaptResponse") : \E k \in Own(s, "AdaptRequest") : k < j

\* the status codes HTTPProxy itself set
Forced(s) == {i \in Own(s, "SetStatusCode") :
                 Trace(s)[i].code \in {StatusBadRequest, StatusTooManyRequests,
                                       StatusServiceUnavailable}}

\* C19: over one Handle call the fallback manager is called at most once
\* and HTTPProxy sets at most one status code.
C19_OneConsultationOneStatus ==
    \A s \in Slots :
        /\ Cardinality(Own(s, "tryFallback")) <= 1
        /\ Cardinality(Forced(s)) <= 1

\* the stage calls that are made at most once for a request
OnceOps ==
    {"Validate", "Limit", "AdaptRequest", "mirrorBackend.Handle", "Filter",
     "Protect", "AdaptResponse"}

\* C20: for one request each of Validate, Limit, AdaptRequest, mirror
\* Handle, Filter, Protect and AdaptResponse is called at most once; at most
\* one handler is used (handed to Protect or called directly, not both) and
\* it runs at most once; HTTPProxy calls Cancel at most once; Filter is
\* called only with a candidate backend configured and only for a request
\* that came out of pre-handle uncancelled.
C20_AtMostOnce ==
    \A s \in Slots :
        /\ \A op \in OnceOps : Cardinality(Calls(s, op)) <= 1
        /\ \A op \in OnceOps : Calls(s, op) = Own(s, op)
        /\ Cardinality(Used(s)) <= 1
        /\ Cardinality(Handled(s)) <= 1
        /\ Own(s, "Protect") # {} => \A i \in Handled(s) : Trace(s)[i].who = "circuitBreaker"
        /\ Cardinality(Own(s, "Cancel")) <= 1
        /\ \A i \in Own(s, "Filter") : hp.candidateBackend /\ CleanAt(s, i)

C20_Witness ==
    \E s \in Slots :
        /\ Returned(s)
        /\ Own(s, "Cancel") # {}
        /\ Own(s, "Filter") # {}
        /\ Handled(s) # {}
        /\ Own(s, "Limit") # {}

\* ---------------------------------------- the answers a request was given
\* read back from its trace tr
Least(S) == CHOOSE i \in S : \A j \in S : i <= j

\* the error the stage call op returned to HTTPProxy, nil if it was not made
ErrOf(tr, op) ==
    LET S == {i \in DOMAIN tr : tr[i].op = op /\ tr[i].who = Proxy}
    IN  IF S = {} THEN Nil ELSE tr[Least(S)].err

\* what the fallback responder did when consulted; pre tells the
\* consultation of pre-handle from the one of the handling phase
ResponseOf(tr, pre) ==
    LET S == {i \in DOMAIN tr :
                 /\ tr[i].op = "fallback.tryFallback"
                 /\ pre <=> tr[i].tag = fallbackPluginRateLimiter}
        k == Least(S) + 1
    IN  IF S = {} \/ k \notin DOMAIN tr \/ tr[k].who # "fallback"
        THEN [do |-> "none", code |-> 0]
        ELSE IF tr[k].op = "SetStatusCode"
             THEN [do |-> "respond", code |-> tr[k].code]
             ELSE [do |-> "cancel", code |-> 0]

\* what the backend handler did when called
OutcomeOf(tr) ==
    LET S == {i \in DOMAIN tr : tr[i].op \in HandlerOps}
        k == Least(S) + 1
    IN  IF S = {} THEN [code |-> 0, cancel |-> Nil]
        ELSE IF tr[k].op = "Cancel"
             THEN [code |-> 0, cancel |-> tr[k].err]
             ELSE [code |-> tr[k].code, cancel |-> Nil]

PreAnswersOf(tr) ==
    [validate |-> ErrOf(tr, "Validate"),
     limit |-> ErrOf(tr, "Limit"),
     fallback |-> ResponseOf(tr, TRUE)]

MainAnswersOf(tr) ==
    [filter |-> \E i \in DOMAIN tr : tr[i].op = "Filter" /\ tr[i].tag = "true",
     protect |-> [run |-> \E i \in DOMAIN tr : tr[i].op \in HandlerOps,
                  err |-> ErrOf(tr, "Protect"),
                  out |-> OutcomeOf(tr)],
     out |-> OutcomeOf(tr),
     fallback |-> ResponseOf(tr, FALSE)]

\* The context of a request that Handle serves alone, entered cancelled or
\* not (gone) and given the answers of tr, when Handle has got to `at`.
Alone(gone, tr, at) ==
    LET c0 == NewContext(gone)
        c1 == preHandle(c0, PreAnswersOf(tr))
        c2 == handle(c1, MainAnswersOf(tr))
    IN  CASE at = "preHandle" -> c0
          [] at = "handle" -> c1
          [] at = "postHandle" -> c2
          [] OTHER ->
               IF AfterPre(c1) = "returned" THEN HandleReturn(c1)
               ELSE IF AfterMain(c2) = "returned" THEN HandleReturn(c2)
                    ELSE HandleReturn(postHandle(c2))

\* where Handle is for a request served alone with the answers of tr
AloneAt(gone, tr, at) ==
    LET c1 == Alone(gone, tr, "handle")
        c2 == Alone(gone, tr, "postHandle")
    IN  CASE at = "preHandle" -> TRUE
          [] at = "handle" -> AfterPre(c1) = "handle"
          [] at = "postHandle" -> AfterPre(c1) = "handle" /\ AfterMain(c2) = "postHandle"
          [] OTHER -> TRUE

\* every request in flight is where, and as, it would be if served alone
AsAlone ==
    \A s \in InFlight :
        /\ req[s] = Alone(EnteredCancelled(s), Trace(s), pc[s])
        /\ AloneAt(EnteredCancelled(s), Trace(s), pc[s])

\* a step leaves HTTPProxy's stages as they are, moves one request only,
\* and adds to that request's own trace
OwnStep ==
    /\ hp' = hp
    /\ \A s, t \in Slots : (pc'[s] # pc[s] /\ pc'[t] # pc[t]) => s = t
    /\ \A s \in Slots :
           IF pc'[s] = pc[s] THEN req'[s] = req[s]
           ELSE pc[s] \notin {"idle", "returned"} =>
                    /\ Len(req'[s].trace) > Len(req[s].trace)
                    /\ SubSeq(req'[s].trace, 1, Len(req[s].trace)) = req[s].trace
                    /\ EnteredCancelled(s)' = EnteredCancelled(s)

\* C17: with two requests in Handle at a time, in any interleaving, each
\* request has the calls, the status and the cancellation it would have if
\* served alone with the answers it got; no step writes a field of
\* HTTPProxy or the context of the other request; and when no request is in
\* flight the rate counter counts the requests served.
C17_NoInterference ==
    /\ [](AsAlone /\ (InFlight = {} => rate1 = served))
    /\ [][OwnStep]_vars

C17_Witness ==
    \E s, t \in Slots :
        /\ s # t
        /\ pc[s] = "postHandle"
        /\ pc[t] = "handle"
        /\ Rejected(s, "Limit") # {}
        /\ Rejected(t, "Limit") = {}
        /\ req[s].status # req[t].status

====
